---- MODULE Spec2Model ----
(***************************************************************************)
(* Model of the ticket validation and repair pipeline of Lorance           *)
(* (backend/src/ticketValidator.ts): validateAndRepairTickets and the      *)
(* helpers it calls, and the callers that run it on fresh candidates, on   *)
(* the same candidate records again, and on tickets it returned before.    *)
(*                                                                         *)
(* JavaScript values are tagged records [t |-> <tag>, v |-> <payload>];    *)
(* strings are TLA+ strings, arrays are sequences, objects are records of  *)
(* tagged values.  A confidence is a number of thousandths (750 is 0.75),  *)
(* so that the subtraction of 0.05, 0.03 and 0.1 and the rounding to two   *)
(* decimals are exact integer arithmetic.  The raw confidences of the      *)
(* inputs have a third decimal other than 5: on those the IEEE doubles of  *)
(* the code round as the exact decimals do.                                *)
(***************************************************************************)
EXTENDS Integers, Sequences, FiniteSets, TLC

VARIABLES raw, ctx, tickets, log, status, call, given, prev, uuids, normalized

vars == <<raw, ctx, tickets, log, status, call, given, prev, uuids, normalized>>

(***************************************************************************)
(* JavaScript values                                                       *)
(***************************************************************************)
Undefined == [t |-> "undefined"]

Null == [t |-> "null"]

Str(s) == [t |-> "string", v |-> s]

Num(n) == [t |-> "number", v |-> n]

Bool(b) == [t |-> "boolean", v |-> b]

Arr(s) == [t |-> "array", v |-> s]

Obj(r) == [t |-> "object", v |-> r]

\* The Object constructor, which every plain object inherits as "constructor".
ObjectFunction == [t |-> "function"]

\* typeof x
TypeOf(x) == IF x.t \in {"null", "array"} THEN "object" ELSE x.t

\* Array.isArray(x)
IsArray(x) == x.t = "array"

\* raw.key: the property of an object, undefined when it has none and on a
\* primitive.  (On null and undefined the read throws: see Throws.)
Get(x, key) ==
  IF x.t = "object" /\ key \in DOMAIN x.v THEN x.v[key] ELSE Undefined

\* raw.key = val
SetKey(x, key, val) ==
  Obj([k \in (DOMAIN x.v) \cup {key} |-> IF k = key THEN val ELSE x.v[k]])

\* !x is false
Truthy(x) ==
  CASE x.t \in {"undefined", "null"} -> FALSE
    [] x.t = "boolean" -> x.v
    [] x.t = "number" -> x.v # 0
    [] x.t = "string" -> x.v # ""
    [] OTHER -> TRUE

\* a ?? b
Coalesce(a, b) == IF a.t \in {"undefined", "null"} THEN b ELSE a

(***************************************************************************)
(* Strings                                                                 *)
(***************************************************************************)
UpperLetters == "ABCDEFGHIJKLMNOPQRSTUVWXYZ"

LowerLetters == "abcdefghijklmnopqrstuvwxyz"

CharAt(s, i) == SubSeq(s, i, i)

UpperSet == {CharAt(UpperLetters, i) : i \in 1..Len(UpperLetters)}

LowerChar(c) ==
  IF c \in UpperSet
  THEN CharAt(LowerLetters, CHOOSE i \in 1..Len(UpperLetters) : CharAt(UpperLetters, i) = c)
  ELSE c

RECURSIVE ToLowerCase(_)
\* String.prototype.toLowerCase
ToLowerCase(s) ==
  IF s = "" THEN "" ELSE LowerChar(CharAt(s, 1)) \o ToLowerCase(SubSeq(s, 2, Len(s)))

IsSpace(c) == c \in {" ", "\t", "\n"}

RECURSIVE TrimStart(_)
TrimStart(s) ==
  IF s # "" /\ IsSpace(CharAt(s, 1)) THEN TrimStart(SubSeq(s, 2, Len(s))) ELSE s

RECURSIVE TrimEnd(_)
TrimEnd(s) ==
  IF s # "" /\ IsSpace(CharAt(s, Len(s))) THEN TrimEnd(SubSeq(s, 1, Len(s) - 1)) ELSE s

\* String.prototype.trim
Trim(s) == TrimEnd(TrimStart(s))

\* String.prototype.includes
Includes(s, p) ==
  \E i \in 1..(Len(s) - Len(p) + 1) : SubSeq(s, i, i + Len(p) - 1) = p

\* Array.prototype.filter, on a sequence
FilterSeq(s, Keep(_)) ==
  LET F[i \in 0..Len(s)] ==
        IF i = 0 THEN <<>>
        ELSE F[i - 1] \o (IF Keep(s[i]) THEN <<s[i]>> ELSE <<>>)
  IN F[Len(s)]

\* Array.prototype.map, on a sequence
MapSeq(s, F(_)) == [i \in 1..Len(s) |-> F(s[i])]

\* F(v), with v evaluated once: the value of one statement handed to the next.
Then(v, F(_)) == CHOOSE r \in {F(x) : x \in {v}} : TRUE

(***************************************************************************)
(* String(x) and template interpolation                                    *)
(***************************************************************************)
\* A number of thousandths as JavaScript prints it: 750 is "0.75", 2000 is "2".
NumberToString(n) ==
  LET a == IF n < 0 THEN 0 - n ELSE n
      whole == a \div 1000
      frac == a % 1000
      d1 == frac \div 100
      d2 == (frac \div 10) % 10
      d3 == frac % 10
      digits == IF d3 # 0 THEN ToString(d1) \o ToString(d2) \o ToString(d3)
                ELSE IF d2 # 0 THEN ToString(d1) \o ToString(d2)
                ELSE ToString(d1)
  IN (IF n < 0 THEN "-" ELSE "") \o ToString(whole)
       \o (IF frac = 0 THEN "" ELSE "." \o digits)

RECURSIVE JsString(_)
\* String(x), `${x}`
JsString(x) ==
  CASE x.t = "undefined" -> "undefined"
    [] x.t = "null" -> "null"
    [] x.t = "boolean" -> IF x.v THEN "true" ELSE "false"
    [] x.t = "number" -> NumberToString(x.v)
    [] x.t = "string" -> x.v
    [] x.t = "function" -> "function Object() { [native code] }"
    [] x.t = "array" ->
         LET J[i \in 0..Len(x.v)] ==
               IF i = 0 THEN ""
               ELSE J[i - 1] \o (IF i > 1 THEN "," ELSE "")
                      \o (IF x.v[i].t \in {"undefined", "null"} THEN ""
                          ELSE JsString(x.v[i]))
         IN J[Len(x.v)]
    [] OTHER -> "[object Object]"

(***************************************************************************)
(* Fuzzy enum maps                                                         *)
(***************************************************************************)
TYPE_ALIASES ==
  [ feature |-> "user_story", story |-> "user_story", user_story |-> "user_story",
    task |-> "task", bug |-> "bug", fix |-> "bug",
    spike |-> "spike", research |-> "spike", exploration |-> "spike",
    infrastructure |-> "infrastructure", infra |-> "infrastructure",
    devops |-> "infrastructure",
    decision |-> "decision", policy |-> "decision",
    qa |-> "task", testing |-> "task", improvement |-> "task",
    enhancement |-> "task", docs |-> "task" ]

EFFORT_ALIASES ==
  [ xs |-> "XS", xsmall |-> "XS", s |-> "S", small |-> "S",
    m |-> "M", medium |-> "M", med |-> "M", l |-> "L", large |-> "L",
    xl |-> "XL", xlarge |-> "XL" ]
  @@ ("x-small" :> "XS") @@ ("x-large" :> "XL")

PRIORITY_ALIASES ==
  [ critical |-> "critical", urgent |-> "critical", p0 |-> "critical",
    high |-> "high", p1 |-> "high",
    medium |-> "medium", normal |-> "medium", p2 |-> "medium",
    low |-> "low", minor |-> "low", p3 |-> "low" ]

\* Object.prototype, which an object literal inherits from.
ObjectPrototype == Obj([k \in {} |-> Undefined])

\* aliases[key] on an object literal: its own property, else the property it
\* inherits from Object.prototype (of the inherited names only "constructor"
\* and "__proto__" are lower-case, and the key is always lower-cased), else
\* undefined.
AliasLookup(aliases, key) ==
  CASE key \in DOMAIN aliases -> Str(aliases[key])
    [] key = "constructor" -> ObjectFunction
    [] key = "__proto__" -> ObjectPrototype
    [] OTHER -> Undefined

\* Object.values(aliases)
AliasValues(aliases) == {aliases[k] : k \in DOMAIN aliases}

(***************************************************************************)
(* Helper functions                                                        *)
(***************************************************************************)
\* normalizeEnum without the toLowerCase() of the lookup key.
normalizeEnum_caseSensitive(x, aliases, fallback) ==
  IF TypeOf(x) # "string" THEN [value |-> Str(fallback), wasNormalized |-> TRUE]
  ELSE LET lower == Trim(x.v)
       IN IF Truthy(AliasLookup(aliases, lower))
          THEN [value |-> AliasLookup(aliases, lower), wasNormalized |-> lower # x.v]
          ELSE IF x.v \in AliasValues(aliases)
               THEN [value |-> x, wasNormalized |-> FALSE]
               ELSE [value |-> Str(fallback), wasNormalized |-> TRUE]

normalizeEnum(x, aliases, fallback) ==
  IF TypeOf(x) # "string" THEN [value |-> Str(fallback), wasNormalized |-> TRUE]
  ELSE LET lower == Trim(ToLowerCase(x.v))
       IN IF Truthy(AliasLookup(aliases, lower))
          THEN [value |-> AliasLookup(aliases, lower), wasNormalized |-> lower # x.v]
          ELSE IF x.v \in AliasValues(aliases)
               THEN [value |-> x, wasNormalized |-> FALSE]
               ELSE [value |-> Str(fallback), wasNormalized |-> TRUE]

normalizeType(x) == normalizeEnum(x, TYPE_ALIASES, "task").value

normalizeReadiness(x) ==
  IF TypeOf(x) = "string" /\ x.v \in {"ready", "partially_blocked", "blocked"}
  THEN x ELSE Str("ready")

\* Returns the sequence of the non-blank strings of an array, [] for a non-array.
toStringArray(x) ==
  IF ~IsArray(x) THEN <<>>
  ELSE FilterSeq(x.v, LAMBDA e : TypeOf(e) = "string" /\ Len(Trim(e.v)) > 0)

\* parseCitation coercing a bare string into a citation of that document.
parseCitation_coerceStrings(c) ==
  IF TypeOf(c) = "string"
  THEN Obj([document_id |-> c, chunk_id |-> Str("unknown")])
  ELSE IF TypeOf(c) = "object" /\ c.t # "null"
       /\ TypeOf(Get(c, "document_id")) = "string"
       /\ TypeOf(Get(c, "chunk_id")) = "string"
  THEN LET keys == {"document_id", "chunk_id"}
                     \cup (IF TypeOf(Get(c, "line_start")) = "number" THEN {"line_start"} ELSE {})
                     \cup (IF TypeOf(Get(c, "line_end")) = "number" THEN {"line_end"} ELSE {})
       IN Obj([k \in keys |-> Get(c, k)])
  ELSE Null

\* One entry of parseCitations' map: the citation object, or null.
parseCitation(c) ==
  IF TypeOf(c) = "object" /\ c.t # "null"
       /\ TypeOf(Get(c, "document_id")) = "string"
       /\ TypeOf(Get(c, "chunk_id")) = "string"
  THEN LET keys == {"document_id", "chunk_id"}
                     \cup (IF TypeOf(Get(c, "line_start")) = "number" THEN {"line_start"} ELSE {})
                     \cup (IF TypeOf(Get(c, "line_end")) = "number" THEN {"line_end"} ELSE {})
       IN Obj([k \in keys |-> Get(c, k)])
  ELSE Null

parseCitations(x) ==
  IF ~IsArray(x) THEN <<>>
  ELSE FilterSeq(MapSeq(x.v, parseCitation), LAMBDA c : c.t # "null")

SetupRequirementTypes == {"external_system", "prior_ticket", "decision", "schema", "other"}

\* One entry of parseSetupRequirements' map.
parseSetupRequirement(item) ==
  IF TypeOf(item) = "string"
  THEN Obj([description |-> item, type |-> Str("other"), resolved |-> Bool(FALSE)])
  ELSE IF TypeOf(item) = "object" /\ item.t # "null"
  THEN LET ty == Get(item, "type")
           d == Get(item, "description")
       IN Obj([ description |->
                  IF TypeOf(d) = "string" THEN d
                  ELSE Str(JsString(IF Truthy(d) THEN d ELSE Str(""))),
                type |->
                  IF TypeOf(ty) = "string" /\ ty.v \in SetupRequirementTypes
                  THEN ty ELSE Str("other"),
                resolved |->
                  IF TypeOf(Get(item, "resolved")) = "boolean"
                  THEN Get(item, "resolved") ELSE Bool(FALSE) ])
  ELSE Obj([description |-> Str(JsString(item)), type |-> Str("other"),
            resolved |-> Bool(FALSE)])

parseSetupRequirements(x) ==
  IF ~IsArray(x) THEN <<>> ELSE MapSeq(x.v, parseSetupRequirement)

(***************************************************************************)
(* The validation log                                                      *)
(***************************************************************************)
\* NewLog starting total_input at zero like the other counters.
NewLog_zeroInput(n) ==
  [ total_input |-> 0, total_output |-> 0, repaired |-> 0, dropped |-> 0,
    promoted_to_decision |-> 0, citations_injected |-> 0, reasons |-> <<>> ]

\* The log validateAndRepairTickets starts a call with.
NewLog(n) ==
  [ total_input |-> n, total_output |-> 0, repaired |-> 0, dropped |-> 0,
    promoted_to_decision |-> 0, citations_injected |-> 0, reasons |-> <<>> ]

\* LogEvent pushing the reasons without incrementing the counter.
LogEvent_reasonsOnly(l, counter, reasons) ==
  [l EXCEPT !.reasons = @ \o reasons]

\* log.<counter>++ followed by log.reasons.push(...) for each of `reasons`.
LogEvent(l, counter, reasons) ==
  [l EXCEPT ![counter] = @ + 1, !.reasons = @ \o reasons]

\* The events of one ticket, applied in the order the code logs them.
ApplyEvents(l, events) ==
  LET A[i \in 0..Len(events)] ==
        IF i = 0 THEN l
        ELSE LogEvent(A[i - 1], events[i].counter, events[i].reasons)
  IN A[Len(events)]

Event(cond, counter, reasons) ==
  IF cond THEN <<[counter |-> counter, reasons |-> reasons]>> ELSE <<>>

(***************************************************************************)
(* Single ticket validation                                                *)
(***************************************************************************)
\* raw.title, trimmed; "" when it is not a string.
titleOf(item) ==
  IF TypeOf(Get(item, "title")) = "string" THEN Trim(Get(item, "title").v) ELSE ""

\* needsPromotion with the threshold off by one.
needsPromotion_offByOne(ac) == Len(ac) < 1

\* The test that promotes a ticket to a decision ticket.
needsPromotion(ac) == Len(ac) < 2

\* The acceptance criteria of a promoted ticket.
decisionCriteria ==
  << Str("Document the decision outcome"),
     Str("Communicate decision to affected stakeholders") >>

\* What the promotion writes to raw.open_questions.
mergedOpenQuestions(item, ac) ==
  LET existingOQ == toStringArray(Get(item, "open_questions"))
      movedAC == IF Len(ac) > 0 THEN ac ELSE <<>>
  IN Arr(existingOQ \o MapSeq(movedAC, LAMBDA a : Str("[Needs clarification] " \o a.v)))

\* initialConfidence without the upper bound of the raw confidence.
initialConfidence_noUpperBound(item, wasPromotedToDecision, confidencePenalty) ==
  LET c == Get(item, "confidence")
      start == IF TypeOf(c) = "number" /\ c.v >= 0 THEN c.v ELSE 750
      capped == IF wasPromotedToDecision /\ start > 600 THEN 600 ELSE start
  IN IF capped - confidencePenalty < 0 THEN 0 ELSE capped - confidencePenalty

\* The confidence before the grounding step.
initialConfidence(item, wasPromotedToDecision, confidencePenalty) ==
  LET c == Get(item, "confidence")
      start == IF TypeOf(c) = "number" /\ c.v >= 0 /\ c.v <= 1000 THEN c.v ELSE 750
      capped == IF wasPromotedToDecision /\ start > 600 THEN 600 ELSE start
  IN IF capped - confidencePenalty < 0 THEN 0 ELSE capped - confidencePenalty

\* groundingApplies with the grounding step switched off.
groundingApplies_disabled(citations, c) == FALSE

\* The condition under which the grounding step injects a citation.
groundingApplies(citations, c) ==
  c.hasDocuments /\ Len(citations) = 0 /\ Len(c.sourceDocIds) > 0

\* inferredCitation taking the last source document instead of the first.
inferredCitation_lastDoc(c) ==
  Obj([ document_id |-> Str(c.sourceDocIds[Len(c.sourceDocIds)]),
        chunk_id |-> Str("inferred") ])

\* The synthetic citation.
inferredCitation(c) ==
  Obj([document_id |-> Str(c.sourceDocIds[1]), chunk_id |-> Str("inferred")])

citationKey(c) == Str(JsString(Get(c, "document_id")) \o ":" \o JsString(Get(c, "chunk_id")))

placeholderEdgeCases ==
  {"handle basic success case", "handle success case", "handle basic case", "handle errors"}

\* Rule 1b: the range of a decision ticket's confidence.
decisionRange(confidence) ==
  LET upper == IF confidence > 750 THEN 750 ELSE confidence
  IN IF upper < 400 THEN 400 ELSE upper

\* The penalty for inferred/derived work.
derivedPenalty(confidence) == IF confidence - 100 < 0 THEN 0 ELSE confidence - 100

\* Math.round(confidence * 100) / 100
roundConfidence(confidence) == ((confidence + 5) \div 10) * 10

\* crypto.randomUUID(): the n-th identifier generated.
randomUUID(n) == "uuid-" \o ToString(n)

\* raw.title is read first: on null and undefined the read is a TypeError.
Throws(item) == item.t \in {"null", "undefined"}

\* Acceptance criteria + decision promotion.
promotion(item) ==
  LET ac0 == toStringArray(Get(item, "acceptance_criteria"))
      promoted == needsPromotion(ac0)
  IN [ title |-> titleOf(item),
       suppliedAC |-> ac0,
       wasPromotedToDecision |-> promoted,
       ac |-> IF promoted THEN decisionCriteria ELSE ac0,
       raw |-> IF promoted
               THEN SetKey(item, "open_questions", mergedOpenQuestions(item, ac0))
               ELSE item ]

\* Enum normalization with confidence penalty.
enumNormalization(w) ==
  LET normalizedType == normalizeEnum(Get(w.raw, "type"), TYPE_ALIASES, "task")
      priority == normalizeEnum(Get(w.raw, "priority"), PRIORITY_ALIASES, "medium")
      effort == normalizeEnum(Get(w.raw, "estimated_effort"), EFFORT_ALIASES, "M")
      effortWasInferred == ~Truthy(Get(w.raw, "estimated_effort")) \/ effort.wasNormalized
  IN [ type |-> IF w.wasPromotedToDecision THEN Str("decision") ELSE normalizedType.value,
       typeNormalized |-> normalizedType.wasNormalized,
       priority |-> priority,
       effort |-> effort,
       confidencePenalty |->
         (IF normalizedType.wasNormalized THEN 50 ELSE 0)
         + (IF priority.wasNormalized THEN 30 ELSE 0)
         + (IF effortWasInferred THEN 100 ELSE 0) ] @@ w

\* Confidence (initial calculation).
confidenceCalculation(w) ==
  [ confidence |->
      initialConfidence(w.raw, w.wasPromotedToDecision, w.confidencePenalty) ] @@ w

\* sourceMode naming a run grounded only when it also has source document ids.
sourceMode_needsDocIds(c) ==
  IF c.hasDocuments /\ Len(c.sourceDocIds) > 0 THEN "grounded" ELSE "synthetic"

\* source_mode
sourceMode(c) == IF c.hasDocuments THEN "grounded" ELSE "synthetic"

\* grounding deriving citation_keys from the parsed citations, before the
\* injection of the synthetic one.
grounding_keysBeforeInjection(w, c) ==
  LET citations == parseCitations(Get(w.raw, "citations"))
      injected == groundingApplies(citations, c)
      final == IF injected THEN <<inferredCitation(c)>> ELSE citations
  IN [ citations |-> final,
       injected |-> injected,
       source_mode |-> sourceMode(c),
       confidence |-> IF injected
                      THEN (IF w.confidence - 50 < 0 THEN 0 ELSE w.confidence - 50)
                      ELSE w.confidence,
       citation_keys |-> MapSeq(citations, citationKey) ] @@ w

\* Citations + grounding.
grounding(w, c) ==
  LET citations == parseCitations(Get(w.raw, "citations"))
      injected == groundingApplies(citations, c)
      final == IF injected THEN <<inferredCitation(c)>> ELSE citations
  IN [ citations |-> final,
       injected |-> injected,
       source_mode |-> sourceMode(c),
       confidence |-> IF injected
                      THEN (IF w.confidence - 50 < 0 THEN 0 ELSE w.confidence - 50)
                      ELSE w.confidence,
       citation_keys |-> MapSeq(final, citationKey) ] @@ w

\* The canonical fields read under their canonical or legacy names, and the
\* optional metadata.
canonicalFields(w) ==
  LET is_derived == IF TypeOf(Get(w.raw, "is_derived")) = "boolean"
                    THEN Get(w.raw, "is_derived") ELSE Undefined
  IN [ suggested_assignee |->
         IF TypeOf(Get(w.raw, "suggested_assignee")) = "string"
           THEN Get(w.raw, "suggested_assignee").v
         ELSE IF TypeOf(Get(w.raw, "assignee_role")) = "string"
           THEN Get(w.raw, "assignee_role").v
         ELSE IF TypeOf(Get(w.raw, "assignee")) = "string"
           THEN Get(w.raw, "assignee").v
         ELSE "",
       dependencies |->
         toStringArray(Coalesce(Get(w.raw, "dependencies"), Get(w.raw, "depends_on"))),
       suggested_dependencies |-> toStringArray(Get(w.raw, "suggested_dependencies")),
       stakeholders |-> toStringArray(Get(w.raw, "stakeholders")),
       is_derived |-> is_derived,
       derived_rationale |->
         IF TypeOf(Get(w.raw, "derived_rationale")) = "string" /\ Truthy(is_derived)
         THEN Get(w.raw, "derived_rationale") ELSE Undefined,
       readiness |-> normalizeReadiness(Get(w.raw, "readiness")),
       readiness_reason |-> IF TypeOf(Get(w.raw, "readiness_reason")) = "string"
                            THEN Get(w.raw, "readiness_reason") ELSE Undefined,
       known_edge_cases |->
         toStringArray(Coalesce(Get(w.raw, "known_edge_cases"), Get(w.raw, "edge_cases"))),
       open_questions |-> toStringArray(Get(w.raw, "open_questions")),
       setup_requirements |-> parseSetupRequirements(Get(w.raw, "setup_requirements")),
       labels |-> toStringArray(Get(w.raw, "labels")) ] @@ w

\* edgeCasePolicy without the default entry of the tickets that are no decisions.
edgeCasePolicy_noDefault(w) ==
  LET hasPlaceholderEdgeCases ==
        Len(w.known_edge_cases) = 1
        /\ \E p \in placeholderEdgeCases :
             Includes(ToLowerCase(w.known_edge_cases[1].v), p)
      isDecision == w.type = Str("decision")
  IN [ isDecision |-> isDecision,
       hasPlaceholderEdgeCases |-> hasPlaceholderEdgeCases,
       finalKnownEdgeCases |->
         IF isDecision
         THEN (IF hasPlaceholderEdgeCases \/ Len(w.known_edge_cases) = 0
               THEN <<>> ELSE w.known_edge_cases)
         ELSE w.known_edge_cases ] @@ w

\* Rule 2: the known edge cases of decision and of other tickets.
edgeCasePolicy(w) ==
  LET hasPlaceholderEdgeCases ==
        Len(w.known_edge_cases) = 1
        /\ \E p \in placeholderEdgeCases :
             Includes(ToLowerCase(w.known_edge_cases[1].v), p)
      isDecision == w.type = Str("decision")
  IN [ isDecision |-> isDecision,
       hasPlaceholderEdgeCases |-> hasPlaceholderEdgeCases,
       finalKnownEdgeCases |->
         IF isDecision
         THEN (IF hasPlaceholderEdgeCases \/ Len(w.known_edge_cases) = 0
               THEN <<>> ELSE w.known_edge_cases)
         ELSE (IF Len(w.known_edge_cases) > 0 THEN w.known_edge_cases
               ELSE <<Str("Handle basic success case")>>) ] @@ w

\* Confidence adjustment rules: Rule 1, Rule 1b, then the derived penalty.
confidenceRules(w) ==
  LET rule1 == IF w.isDecision /\ Len(w.open_questions) > 0 /\ w.confidence > 750
               THEN 750 ELSE w.confidence
      rule1b == IF w.isDecision THEN decisionRange(rule1) ELSE rule1
  IN [ confidence |-> IF Truthy(w.is_derived) THEN derivedPenalty(rule1b) ELSE rule1b ] @@ w

\* The condition under which the hard fill injects a citation.
backstopApplies(citations, c) ==
  Len(citations) = 0 /\ c.hasDocuments /\ Len(c.sourceDocIds) > 0

\* Hard fill: every canonical field, then the identifier.
filledTicket(w, c, ticketId) ==
  Obj([ title |-> Str(w.title),
        description |-> IF TypeOf(Get(w.raw, "description")) = "string"
                        THEN Get(w.raw, "description") ELSE Str(""),
        type |-> w.type,
        acceptance_criteria |->
          Arr(IF Len(w.ac) >= 2 THEN w.ac
              ELSE <<Str("Complete implementation"),
                     Str("Verify behavior meets requirements")>>),
        known_edge_cases |-> Arr(w.finalKnownEdgeCases),
        open_questions |-> Arr(w.open_questions),
        setup_requirements |-> Arr(w.setup_requirements),
        dependencies |-> Arr(w.dependencies),
        estimated_effort |-> w.effort.value,
        priority |-> w.priority.value,
        labels |-> Arr(w.labels),
        suggested_assignee |->
          Str(IF w.suggested_assignee # "" THEN w.suggested_assignee ELSE "Unassigned"),
        confidence |-> Num(roundConfidence(w.confidence)),
        citations |->
          Arr(IF Len(w.citations) > 0 THEN w.citations
              ELSE IF backstopApplies(w.citations, c)
                   THEN <<inferredCitation(c)>> ELSE <<>>),
        citation_keys |-> Arr(IF Len(w.citations) > 0 THEN w.citation_keys ELSE <<>>),
        stakeholders |->
          IF Len(w.stakeholders) > 0 THEN Arr(w.stakeholders) ELSE Undefined,
        suggested_dependencies |->
          IF Len(w.suggested_dependencies) > 0 THEN Arr(w.suggested_dependencies)
          ELSE Undefined,
        is_derived |-> w.is_derived,
        derived_rationale |-> w.derived_rationale,
        readiness |-> w.readiness,
        readiness_reason |-> w.readiness_reason,
        source_docs |-> IF Len(c.sourceDocIds) > 0
                        THEN Arr(MapSeq(c.sourceDocIds, Str)) ELSE Undefined,
        source_mode |-> Str(w.source_mode),
        workspace_id |-> IF TypeOf(Get(w.raw, "workspace_id")) = "string"
                         THEN Get(w.raw, "workspace_id") ELSE Undefined,
        owner_uid |-> IF TypeOf(Get(w.raw, "owner_uid")) = "string"
                      THEN Get(w.raw, "owner_uid") ELSE Undefined,
        id |-> ticketId,
        objectID |-> ticketId ])

\* Whether the "filled-missing-fields" event is logged.
hadEmptyFields(w) ==
  (Len(w.finalKnownEdgeCases) = 0 /\ ~w.isDecision) \/ Len(w.open_questions) = 0
  \/ Len(w.setup_requirements) = 0 \/ Len(w.dependencies) = 0 \/ Len(w.labels) = 0
  \/ w.suggested_assignee = ""

\* The counter increments and reasons of one returned ticket, in code order.
\* (The arrows of the reason texts are written "->".)
ticketEvents(w) ==
  Event(w.wasPromotedToDecision, "promoted_to_decision",
        <<"promoted->decision: \"" \o w.title \o "\" had "
            \o ToString(Len(w.suppliedAC)) \o " AC">>)
  \o Event(w.typeNormalized, "repaired",
           <<"enum-repair: type \"" \o JsString(Get(w.raw, "type")) \o "\"->\""
               \o JsString(w.type) \o "\" for \"" \o w.title \o "\"">>)
  \o Event(w.priority.wasNormalized, "repaired", <<>>)
  \o Event(w.injected, "citations_injected",
           <<"citation-injected: \"" \o w.title
               \o "\" had 0 citations in grounded mode">>)
  \o Event(w.isDecision /\ w.hasPlaceholderEdgeCases, "repaired",
           <<"edge-cases-cleared: decision ticket had placeholder, replaced with empty array">>)
  \o Event(w.isDecision /\ Len(w.open_questions) > 0, "repaired",
           <<"confidence-capped: decision ticket with "
               \o ToString(Len(w.open_questions)) \o " open questions capped to 0.75">>)
  \o Event(w.isDecision, "repaired",
           <<"confidence-adjusted: decision ticket range 0.4-0.75">>)
  \o Event(Truthy(w.is_derived), "repaired",
           <<"confidence-reduced: derived ticket penalty">>)
  \o Event(hadEmptyFields(w), "repaired",
           <<"filled-missing-fields: \"" \o w.title \o "\" had empty canonical fields">>)

\* The working values of one candidate after every step up to the hard fill.
pipeline(item, c) ==
  Then(Then(Then(Then(Then(Then(promotion(item),
    enumNormalization), confidenceCalculation), LAMBDA w : grounding(w, c)),
    canonicalFields), edgeCasePolicy), confidenceRules)

\* Whether an identifier has to be generated.
needsId(item) ==
  TypeOf(Get(item, "objectID")) # "string" /\ TypeOf(Get(item, "id")) # "string"

\* ticketIdOf preferring the candidate's id to its objectID.
ticketIdOf_idFirst(item, n) ==
  IF TypeOf(Get(item, "id")) = "string" THEN Get(item, "id")
  ELSE IF TypeOf(Get(item, "objectID")) = "string" THEN Get(item, "objectID")
  ELSE Str(randomUUID(n + 1))

\* ticketId
ticketIdOf(item, n) ==
  IF TypeOf(Get(item, "objectID")) = "string" THEN Get(item, "objectID")
  ELSE IF TypeOf(Get(item, "id")) = "string" THEN Get(item, "id")
  ELSE Str(randomUUID(n + 1))

\* The returned ticket (null for a dropped candidate), the candidate record as
\* the call leaves it, the log, and the number of identifiers generated so far.
validateSingleTicket(item, c, l, n) ==
  IF titleOf(item) = ""
  THEN [ result |-> Null, raw |-> item, uuids |-> n,
         log |-> LogEvent(l, "dropped", <<"dropped: missing title">>) ]
  ELSE Then(pipeline(item, c),
            LAMBDA w : [ result |-> filledTicket(w, c, ticketIdOf(item, n)),
                         raw |-> w.raw,
                         uuids |-> IF needsId(item) THEN n + 1 ELSE n,
                         log |-> ApplyEvents(l, ticketEvents(w)) ])

(***************************************************************************)
(* Main entry point                                                        *)
(***************************************************************************)
\* One iteration of the for loop: `before` is the call so far.  An item whose
\* validation throws ends the call: nothing is returned, and the candidate
\* records validated before it stay as the loop left them.
loopBody(before, item, c) ==
  IF before.threw \/ Throws(item)
  THEN [before EXCEPT !.threw = TRUE, !.raw = @ \o <<item>>]
  ELSE Then(validateSingleTicket(item, c, before.log, before.uuids),
            LAMBDA one : [ threw |-> FALSE,
                           raw |-> before.raw \o <<one.raw>>,
                           tickets |-> IF one.result.t = "null" THEN before.tickets
                                       ELSE before.tickets \o <<one.result>>,
                           log |-> one.log,
                           uuids |-> one.uuids ])

\* validateAndRepairTickets(items, c), with n identifiers generated before it.
validateAndRepairTickets(items, c, n) ==
  LET Loop[i \in 0..Len(items)] ==
        IF i = 0
        THEN [ threw |-> FALSE, raw |-> <<>>, tickets |-> <<>>,
               log |-> NewLog(Len(items)), uuids |-> n ]
        ELSE Then(Loop[i - 1], LAMBDA before : loopBody(before, items[i], c))
  IN Then(Loop[Len(items)],
          LAMBDA done : [done EXCEPT !.log.total_output = Len(done.tickets)])

\* validateAndRepairTickets([r, r], c): the array holds one record twice, so the
\* second iteration of the loop validates the record as the first one left it,
\* and both elements of the array are that record as the second one leaves it.
validateAndRepairSameRecord(item, c, n) ==
  Then(loopBody([ threw |-> FALSE, raw |-> <<>>, tickets |-> <<>>,
                  log |-> NewLog(2), uuids |-> n ], item, c),
       LAMBDA first :
         Then(loopBody(first, first.raw[1], c),
              LAMBDA done : [done EXCEPT !.log.total_output = Len(done.tickets),
                                         !.raw = <<done.raw[2], done.raw[2]>>]))

(***************************************************************************)
(* Inputs                                                                  *)
(***************************************************************************)
MaxBatch == 3

MaxCalls == 3

wellFormedCitation == Obj([document_id |-> Str("doc_2"), chunk_id |-> Str("c1")])

\* A bare string, a citation with a line range, an object without chunk_id.
mixedCitations ==
  Arr(<< Str("doc_1:c9"),
         Obj([document_id |-> Str("doc_1"), chunk_id |-> Str("c7"),
              line_start |-> Num(3000), line_end |-> Str("9")]),
         Obj([document_id |-> Str("doc_1")]),
         wellFormedCitation >>)

TypeInputs == {Undefined, Str("task"), Str("decision"), Str("FIX"), Str("chore")}

PriorityInputs == {Undefined, Str("high")}

EffortInputs == {Undefined, Str("M"), Str("small")}

CriteriaInputs ==
  {Undefined, Arr(<<Str("Works")>>), Arr(<<Str("A"), Str("B")>>)}

QuestionInputs ==
  {Undefined, Arr(<<Str("Who owns this?")>>), Arr(<<Str("Why?"), Num(2000), Str(" ")>>)}

ConfidenceInputs == {Undefined, Num(1200), Num(0), Num(400), Num(957), Num(1000)}

DerivedInputs == {Undefined, Bool(TRUE)}

CitationInputs == {Undefined, mixedCitations}

\* Candidates with a usable title: every combination of the fields that the
\* promotion, the enum penalties, the grounding and the confidence rules read.
CoreCandidates ==
  { Obj([ title |-> Str("Add login"), type |-> ty, priority |-> pr,
          estimated_effort |-> ef, acceptance_criteria |-> ac,
          confidence |-> co, is_derived |-> de, citations |-> ci ]) :
      ty \in TypeInputs, pr \in PriorityInputs, ef \in EffortInputs,
      ac \in CriteriaInputs, co \in ConfidenceInputs,
      de \in DerivedInputs, ci \in CitationInputs }

\* Candidates with open questions of their own.
QuestionCandidates ==
  { Obj([ title |-> Str("Pick a database"), type |-> ty, acceptance_criteria |-> ac,
          open_questions |-> oq, confidence |-> co ]) :
      ty \in {Str("decision"), Str("policy"), Str("task")}, ac \in CriteriaInputs,
      oq \in QuestionInputs, co \in {Undefined, Num(900)} }

\* Candidates that differ in the title only.
TitleInputs ==
  {Undefined, Null, Num(7000), Str(""), Str("  "), Str("Fix bug"), Str(" Fix bug\n")}

TitleCandidates ==
  { Obj([title |-> ti, acceptance_criteria |-> ac]) :
      ti \in TitleInputs, ac \in {Undefined, Arr(<<Str("A"), Str("B")>>)} }

\* The example scenarios of the specification.
Scenario1 ==
  Obj([ title |-> Str("Add login"), acceptance_criteria |-> Arr(<<Str("Works")>>),
        type |-> Str("feature") ])

Scenario2 == Obj([title |-> Str("")])

Scenario3 ==
  Obj([ title |-> Str("Fix bug"), type |-> Str("FIX"), priority |-> Str("urgent"),
        estimated_effort |-> Str("sm"),
        acceptance_criteria |-> Arr(<<Str("A"), Str("B")>>),
        citations |-> Arr(<<wellFormedCitation>>) ])

Scenario4 ==
  Obj([ title |-> Str("Research spike"),
        acceptance_criteria |-> Arr(<<Str("A"), Str("B")>>),
        known_edge_cases |-> Arr(<<>>) ])

Scenario5 ==
  Obj([ title |-> Str("Deploy fix"), depends_on |-> Arr(<<Str("Fix bug")>>),
        acceptance_criteria |-> Arr(<<Str("A"), Str("B")>>) ])

\* Candidates that are canonical in every field the confidence depends on.
CanonicalCandidates ==
  { Obj([ title |-> Str("Ship it"), type |-> Str(ty), priority |-> Str("high"),
          estimated_effort |-> Str(ef),
          acceptance_criteria |-> Arr(<<Str("A"), Str("B")>>),
          citations |-> Arr(<<wellFormedCitation>>), confidence |-> co,
          is_derived |-> de ]) :
      ty \in {"task", "bug"}, ef \in {"XS", "S", "M", "L", "XL"},
      co \in {Num(0), Num(900), Num(1000)}, de \in {Undefined, Bool(FALSE)} }

\* Further shapes: blank and non-string criteria, a type that names an
\* inherited property, an is_derived that is not a boolean.
OtherCandidates ==
  { Obj([ title |-> Str("Add login"),
          acceptance_criteria |-> Arr(<<Str(" "), Str("Works"), Num(1000)>>) ]),
    Obj([ title |-> Str("Add login"),
          acceptance_criteria |-> Arr(<<Str("A"), Str(""), Str("B")>>) ]),
    Obj([ title |-> Str("Add login"), type |-> Str("constructor"),
          acceptance_criteria |-> Arr(<<Str("A"), Str("B")>>) ]),
    Obj([ title |-> Str("Add login"), is_derived |-> Str("yes"),
          acceptance_criteria |-> Str("Works"), confidence |-> Str("0.9") ]),
    Obj([ title |-> Str("Add login"), priority |-> Str("P1"), is_derived |-> Bool(FALSE),
          acceptance_criteria |-> Arr(<<Str("A"), Str("B")>>),
          confidence |-> Num(0 - 100) ]) }

\* Candidates with and without identifiers of their own, strings and others.
IdCandidates ==
  { Obj([ title |-> Str("Fix bug"), acceptance_criteria |-> Arr(<<Str("A"), Str("B")>>),
          objectID |-> oid, id |-> id ]) :
      oid \in {Undefined, Str("obj-1"), Str(""), Num(42000)},
      id \in {Undefined, Str("t-9"), Num(7000)} }

\* What a candidate can supply as edge cases: nothing, blanks, one or several
\* placeholder phrases, a sentence that contains one, entries of substance.
EdgeCaseInputs ==
  { Undefined, Arr(<<>>), Arr(<<Str(" "), Num(1000)>>),
    Arr(<<Str("Handle errors")>>),
    Arr(<<Str("Handle errors"), Str("Handle basic case")>>),
    Arr(<<Str("Handle errors when the card expires")>>),
    Arr(<<Str("Retry on timeout")>>),
    Arr(<<Str("Retry on timeout"), Str("Handle errors")>>) }

\* Decision and other candidates with edge cases under either name.
EdgeCaseCandidates ==
  { Obj([ title |-> Str("Pick a database"), type |-> Str(ty),
          acceptance_criteria |-> Arr(<<Str("A"), Str("B")>>),
          known_edge_cases |-> ke, edge_cases |-> le ]) :
      ty \in {"decision", "task"}, ke \in EdgeCaseInputs,
      le \in {Undefined, Arr(<<Str("Legacy case")>>)} }

\* Candidates that supply every canonical field, or all but some of the
\* description, the labels and the edge cases.
FullCandidates ==
  { Obj([ title |-> Str("Add login"), type |-> Str("task"),
          acceptance_criteria |-> Arr(<<Str("A"), Str("B")>>),
          description |-> de, labels |-> la, known_edge_cases |-> ke,
          open_questions |-> Arr(<<Str("Who owns this?")>>),
          setup_requirements |-> Arr(<<Str("Staging database")>>),
          dependencies |-> Arr(<<Str("Fix bug")>>),
          suggested_assignee |-> Str("Backend") ]) :
      de \in {Undefined, Str("Users sign in")},
      la \in {Undefined, Arr(<<Str("auth")>>)},
      ke \in {Undefined, Arr(<<Str("Retry on timeout")>>)} }

\* Candidates that name the assignee and the dependencies under the canonical
\* and the legacy keys, with nulls, empty values and values of other types.
LegacyCandidates ==
  { Obj([ title |-> Str("Deploy fix"),
          acceptance_criteria |-> Arr(<<Str("A"), Str("B")>>),
          suggested_assignee |-> sa, assignee_role |-> ro, assignee |-> asg ]) :
      sa \in {Undefined, Null, Str(""), Num(5000), Str("Frontend")},
      ro \in {Undefined, Str(""), Str("Backend")},
      asg \in {Undefined, Str("QA")} }
  \cup
  { Obj([ title |-> Str("Deploy fix"),
          acceptance_criteria |-> Arr(<<Str("A"), Str("B")>>),
          dependencies |-> de, depends_on |-> Arr(<<Str("Fix bug")>>) ]) :
      de \in {Null, Arr(<<>>), Str("Ship it"), Arr(<<Str("Ship it"), Num(1000)>>)} }

\* What an entry of a candidate's setup_requirements can be: a bare string,
\* other non-objects, objects with a known or an unknown type, with and without
\* a description and a resolved flag.
SetupInputs ==
  { Str("Staging database"), Num(7000), Null,
    Obj([description |-> Str("Orders table"), type |-> Str("schema"),
         resolved |-> Bool(TRUE)]),
    Obj([description |-> Str("Payment API key"), type |-> Str("api"),
         resolved |-> Bool(TRUE)]),
    Obj([type |-> Str("api")]),
    Obj([description |-> Num(7000), type |-> Str("other"), resolved |-> Str("yes")]) }

\* Candidates with no, one and two setup requirements, and with a
\* setup_requirements that is no array.
SetupCandidates ==
  { Obj([ title |-> Str("Add login"),
          acceptance_criteria |-> Arr(<<Str("A"), Str("B")>>),
          setup_requirements |-> sr ]) :
      sr \in {Arr(<<>>), Str("Staging database")}
               \cup {Arr(<<a>>) : a \in SetupInputs}
               \cup {Arr(<<a, b>>) : a \in SetupInputs, b \in SetupInputs} }

Scenarios == {Scenario1, Scenario2, Scenario3, Scenario4, Scenario5}

\* What an element of the raw array can be besides a record.
NonRecords == {Null, Undefined, Num(7000), Str("ticket")}

Candidates ==
  CoreCandidates \cup QuestionCandidates \cup TitleCandidates
    \cup CanonicalCandidates \cup OtherCandidates \cup IdCandidates
    \cup EdgeCaseCandidates \cup FullCandidates \cup LegacyCandidates
    \cup SetupCandidates
    \cup Scenarios \cup NonRecords

\* The elements that batches of several candidates are made of.
BatchPool == Scenarios \cup {Null, Str("ticket")}

\* The records that an array can hold twice.
SharedPool == Scenarios \cup QuestionCandidates \cup OtherCandidates \cup {Null}

Batches ==
  {<<>>} \cup {<<x>> : x \in Candidates}
    \cup UNION {[1..n -> BatchPool] : n \in 2..MaxBatch}

Contexts ==
  { [hasDocuments |-> FALSE, sourceDocIds |-> <<>>],
    [hasDocuments |-> FALSE, sourceDocIds |-> <<"doc_1">>],
    [hasDocuments |-> TRUE, sourceDocIds |-> <<>>],
    [hasDocuments |-> TRUE, sourceDocIds |-> <<"doc_1", "doc_2">>] }

(***************************************************************************)
(* The callers                                                             *)
(***************************************************************************)
Init ==
  /\ raw = <<>>
  /\ given = <<>>
  /\ ctx \in Contexts
  /\ tickets = <<>>
  /\ log = NewLog(0)
  /\ status = "idle"
  /\ call = [kind |-> "none", count |-> 0]
  /\ prev = [status |-> "idle", tickets |-> <<>>, log |-> NewLog(0), uuids |-> 0]
  /\ uuids = 0
  /\ normalized = [field |-> "none"]

\* What a call with the outcome r leaves behind.
Outcome(items, kind, r) ==
  /\ given' = items
  /\ raw' = r.raw
  /\ tickets' = IF r.threw THEN <<>> ELSE r.tickets
  /\ log' = r.log
  /\ status' = IF r.threw THEN "threw" ELSE "returned"
  /\ call' = [kind |-> kind, count |-> call.count + 1]
  /\ prev' = [status |-> status, tickets |-> tickets, log |-> log, uuids |-> uuids]
  /\ uuids' = r.uuids
  /\ UNCHANGED <<ctx, normalized>>

\* One call validateAndRepairTickets(items, ctx) of records that are all
\* different objects.
Call(items, kind) ==
  \E r \in {validateAndRepairTickets(items, ctx, uuids)} : Outcome(items, kind, r)

\* A parser hands the candidates of a model response to the validator
\* (DocumentIntelAgent.parseStructuredAnswer, AgentStudioService.parseResponse).
Validate ==
  /\ status = "idle"
  /\ \E items \in Batches : Call(items, "first")

\* A caller hands over an array that holds the same candidate record twice.
ValidateShared ==
  /\ status = "idle"
  /\ \E item \in SharedPool :
       \E r \in {validateAndRepairSameRecord(item, ctx, uuids)} :
         Outcome(<<item, item>>, "shared", r)

\* A caller validates the same candidate records again, under the same context.
ValidateAgain ==
  /\ status = "returned"
  /\ call.kind \in {"first", "again"}
  /\ call.count < MaxCalls
  /\ Call(raw, "again")

\* A returned ticket is validated again (DocumentIntelController.search runs
\* the stored tickets through the validator on every search).
Revalidate ==
  /\ status = "returned"
  /\ call.kind \in {"first", "revalidate"}
  /\ call.count < MaxCalls
  /\ \E k \in 1..Len(tickets) : Call(<<tickets[k]>>, "revalidate")

Next == Validate \/ ValidateShared \/ ValidateAgain \/ Revalidate

Spec == Init /\ [][Next]_vars

(***************************************************************************)
(* normalizeEnum on its own                                                *)
(***************************************************************************)
\* Raw values of an enum field: every key of the alias table as written, and
\* with surrounding blanks; every canonical value; values in another case, an
\* unknown and an empty string, names that every object inherits, and values
\* that are absent or no strings.
EnumInputs(aliases) ==
  {Str(k) : k \in DOMAIN aliases}
    \cup {Str(" " \o k \o " ") : k \in DOMAIN aliases}
    \cup {Str(v) : v \in AliasValues(aliases)}
    \cup { Str("FIX"), Str("Urgent"), Str("Small"), Str("xl"), Str("chore"), Str("sm"),
           Str(""), Str("constructor"), Str("__proto__"),
           Undefined, Null, Num(3000), Bool(TRUE), Arr(<<Str("task")>>) }

EnumInit ==
  /\ raw = <<>>
  /\ given = <<>>
  /\ ctx = [hasDocuments |-> FALSE, sourceDocIds |-> <<>>]
  /\ tickets = <<>>
  /\ log = NewLog(0)
  /\ status = "idle"
  /\ call = [kind |-> "none", count |-> 0]
  /\ prev = [status |-> "idle", tickets |-> <<>>, log |-> NewLog(0), uuids |-> 0]
  /\ uuids = 0
  /\ normalized = [field |-> "none"]

\* normalizeEnum(x, aliases, fallback), called for the field `field`.
Normalize(field, x, aliases, fallback) ==
  /\ normalized' = [ field |-> field, raw |-> x,
                     result |-> normalizeEnum(x, aliases, fallback) ]
  /\ UNCHANGED <<raw, ctx, tickets, log, status, call, given, prev, uuids>>

NormalizeTypeField ==
  \E x \in EnumInputs(TYPE_ALIASES) : Normalize("type", x, TYPE_ALIASES, "task")

NormalizePriorityField ==
  \E x \in EnumInputs(PRIORITY_ALIASES) :
    Normalize("priority", x, PRIORITY_ALIASES, "medium")

NormalizeEffortField ==
  \E x \in EnumInputs(EFFORT_ALIASES) :
    Normalize("estimated_effort", x, EFFORT_ALIASES, "M")

EnumNext == NormalizeTypeField \/ NormalizePriorityField \/ NormalizeEffortField

EnumSpec == EnumInit /\ [][EnumNext]_vars

(***************************************************************************)
(* Vocabulary of the properties                                            *)
(***************************************************************************)
Returned == status = "returned"

\* The input title is a string that is non-empty after trimming.
HasUsableTitle(x) ==
  x.t = "object" /\ "title" \in DOMAIN x.v /\ x.v.title.t = "string"
    /\ Trim(x.v.title.v) # ""

\* The position in `tickets` of the ticket of the i-th candidate.
TicketIndex(i) == Cardinality({j \in 1..i : HasUsableTitle(given[j])})

\* The ticket returned for the i-th candidate (which has a usable title).
TicketOf(i) == tickets[TicketIndex(i)].v

\* The non-empty strings of a supplied array, in order.
NonEmptyStrings(x) ==
  IF x.t = "array"
  THEN SelectSeq(x.v, LAMBDA e : e.t = "string" /\ Trim(e.v) # "")
  ELSE <<>>

\* The candidates' own acceptance criteria that count.
SuppliedCriteria(x) == NonEmptyStrings(Get(x, "acceptance_criteria"))

IsWellFormedCitation(e) ==
  e.t = "object" /\ {"document_id", "chunk_id"} \subseteq DOMAIN e.v
    /\ e.v.document_id.t = "string" /\ e.v.chunk_id.t = "string"

\* The well-formed citations of a candidate, in order.
SuppliedCitations(x) ==
  IF Get(x, "citations").t = "array"
  THEN SelectSeq(Get(x, "citations").v, IsWellFormedCitation)
  ELSE <<>>

\* A citation as the pair it points at.
CitationTarget(e) == <<e.v.document_id.v, e.v.chunk_id.v>>

Targets(cs) == [k \in 1..Len(cs) |-> CitationTarget(cs[k])]

Elements(s) == {s[k] : k \in 1..Len(s)}

DecisionPlaceholders ==
  Arr(<< Str("Document the decision outcome"),
         Str("Communicate decision to affected stakeholders") >>)

\* Two ticket lists equal field by field apart from the identifiers.
SameApartFromIds(a, b) ==
  /\ Len(a) = Len(b)
  /\ \A k \in 1..Len(a) :
       [a[k].v EXCEPT !.id = Null, !.objectID = Null]
         = [b[k].v EXCEPT !.id = Null, !.objectID = Null]

(***************************************************************************)
(* C1 .. C10                                                               *)
(***************************************************************************)
\* C1: every returned ticket of type "decision" has 0.4 <= confidence <= 0.75,
\* whatever its is_derived flag and citations were.
C1_DecisionConfidenceRange ==
  Returned =>
    \A k \in 1..Len(tickets) :
      tickets[k].v.type = Str("decision") =>
        tickets[k].v.confidence.v >= 400 /\ tickets[k].v.confidence.v <= 750

\* C1 with the derived penalty left aside: a decision ticket that is not
\* derived is in the range (the clamp itself works).
C1_RangeOfUnderivedDecisions ==
  Returned =>
    \A k \in 1..Len(tickets) :
      (tickets[k].v.type = Str("decision") /\ tickets[k].v.is_derived # Bool(TRUE)) =>
        tickets[k].v.confidence.v >= 400 /\ tickets[k].v.confidence.v <= 750

\* C2: the call never throws: for every element shape it returns {tickets, log},
\* and every element is either returned as a ticket or counted as dropped.
C2_NeverThrows ==
  call.count > 0 =>
    /\ status = "returned"
    /\ Len(tickets) + log.dropped = Len(given)

\* C3: re-validation is idempotent: validating a returned ticket again under the
\* same context returns a ticket equal to it in every field, confidence included.
C3_RevalidationIdempotent ==
  (Returned /\ call.kind = "revalidate") => tickets = given

\* C4: a call leaves every candidate record as it was, so a second call with the
\* same records and context returns equal tickets (apart from generated ids) and
\* equal log counters.
C4_PureFunction ==
  /\ call.count > 0 => raw = given
  /\ (Returned /\ call.kind = "again") =>
       /\ SameApartFromIds(tickets, prev.tickets)
       /\ log = prev.log

\* C4, second half alone: the second call with the same records returns what the
\* first returned.
C4_SecondCallReturnsTheSame ==
  (Returned /\ call.kind = "again") =>
    /\ SameApartFromIds(tickets, prev.tickets)
    /\ log = prev.log

CanonicalTypes == {"user_story", "task", "bug", "spike", "infrastructure", "decision"}

CanonicalPriorities == {"critical", "high", "medium", "low"}

CanonicalEfforts == {"XS", "S", "M", "L", "XL"}

\* A candidate that is canonical in every field the confidence depends on.
IsCanonicalCandidate(x) ==
  /\ HasUsableTitle(x)
  /\ Get(x, "type").t = "string" /\ Get(x, "type").v \in CanonicalTypes \ {"decision"}
  /\ Get(x, "priority").t = "string" /\ Get(x, "priority").v \in CanonicalPriorities
  /\ Get(x, "estimated_effort").t = "string"
  /\ Get(x, "estimated_effort").v \in CanonicalEfforts
  /\ Len(SuppliedCriteria(x)) >= 2
  /\ Len(SuppliedCitations(x)) >= 1
  /\ Get(x, "is_derived") # Bool(TRUE)
  /\ Get(x, "confidence").t = "number"
  /\ Get(x, "confidence").v >= 0 /\ Get(x, "confidence").v <= 1000

\* C5: a candidate that is already canonical incurs no confidence penalty: its
\* ticket's confidence is the raw confidence rounded to 2 decimals.
C5_CanonicalNoPenalty ==
  (Returned /\ call.kind = "first") =>
    \A i \in 1..Len(given) :
      IsCanonicalCandidate(given[i]) =>
        TicketOf(i).confidence.v = ((Get(given[i], "confidence").v + 5) \div 10) * 10

\* C6 as stated: scenario 3 yields type "bug", priority "critical",
\* estimated_effort "S" and a confidence below the 0.75 default.
C6_Scenario3AsStated ==
  (Returned /\ call.kind = "first" /\ given = <<Scenario3>>) =>
    /\ Len(tickets) = 1
    /\ tickets[1].v.type = Str("bug")
    /\ tickets[1].v.priority = Str("critical")
    /\ tickets[1].v.estimated_effort = Str("S")
    /\ tickets[1].v.confidence.v < 750

\* C6 amended: scenario 3 yields type "bug", priority "critical",
\* estimated_effort "M" ("sm" is no key of the alias table, so the effort falls
\* back) and a confidence below the 0.75 default.
C6_Scenario3 ==
  (Returned /\ call.kind = "first" /\ given = <<Scenario3>>) =>
    /\ Len(tickets) = 1
    /\ tickets[1].v.type = Str("bug")
    /\ tickets[1].v.priority = Str("critical")
    /\ tickets[1].v.estimated_effort = Str("M")
    /\ tickets[1].v.confidence.v < 750

C6_Witness ==
  /\ Returned /\ call.kind = "first" /\ given = <<Scenario3>>
  /\ tickets[1].v.type = Str("bug")
  /\ tickets[1].v.confidence = Num(600)

\* C7: a candidate with a usable title and fewer than 2 non-empty string
\* acceptance criteria comes out as a "decision" ticket with exactly the two
\* placeholders as criteria and each supplied criterion in open_questions behind
\* "[Needs clarification] "; a candidate with 2 or more keeps its criteria and is
\* not promoted (the promotion counter counts the former only).
C7_PromotionInvariant ==
  Returned =>
    /\ \A i \in 1..Len(given) :
         HasUsableTitle(given[i]) =>
           IF Len(SuppliedCriteria(given[i])) < 2
           THEN /\ TicketOf(i).type = Str("decision")
                /\ TicketOf(i).acceptance_criteria = DecisionPlaceholders
                /\ \A a \in Elements(SuppliedCriteria(given[i])) :
                     Str("[Needs clarification] " \o a.v)
                       \in Elements(TicketOf(i).open_questions.v)
           ELSE TicketOf(i).acceptance_criteria = Arr(SuppliedCriteria(given[i]))
    /\ log.promoted_to_decision =
         Cardinality({i \in 1..Len(given) :
                        HasUsableTitle(given[i]) /\ Len(SuppliedCriteria(given[i])) < 2})

C7_Witness ==
  /\ Returned
  /\ \E i \in 1..Len(given) :
       /\ HasUsableTitle(given[i])
       /\ Len(SuppliedCriteria(given[i])) = 1
       /\ Get(given[i], "type") = Str("task")
       /\ TicketOf(i).type = Str("decision")
       /\ Len(TicketOf(i).open_questions.v) >= 1

\* C8: for every candidate of the batch, the output contains a ticket with that
\* candidate's (trimmed) title if and only if the input title is a string that is
\* non-empty after trimming, and nothing else keeps a candidate out of the output.
C8_TitleInvariant ==
  call.count > 0 =>
    /\ \A i \in 1..Len(given) :
         HasUsableTitle(given[i]) <=>
           \E k \in 1..Len(tickets) :
             /\ Get(given[i], "title").t = "string"
             /\ tickets[k].v.title = Str(Trim(Get(given[i], "title").v))
    /\ Len(tickets) = Cardinality({i \in 1..Len(given) : HasUsableTitle(given[i])})

\* C8 for the calls that return: there the title decides alone.
C8_TitleInvariantOfReturnedCalls ==
  Returned =>
    /\ \A i \in 1..Len(given) :
         HasUsableTitle(given[i]) <=>
           \E k \in 1..Len(tickets) :
             /\ Get(given[i], "title").t = "string"
             /\ tickets[k].v.title = Str(Trim(Get(given[i], "title").v))
    /\ Len(tickets) = Cardinality({i \in 1..Len(given) : HasUsableTitle(given[i])})

\* C9: when hasDocuments is true and sourceDocIds is non-empty, every returned
\* ticket has at least one citation: exactly the one synthetic citation
\* {sourceDocIds[0], "inferred"} when its candidate had no well-formed citation,
\* and exactly the candidate's well-formed citations otherwise.
C9_GroundingInvariant ==
  (Returned /\ ctx.hasDocuments /\ Len(ctx.sourceDocIds) > 0) =>
    \A i \in 1..Len(given) :
      HasUsableTitle(given[i]) =>
        /\ Len(TicketOf(i).citations.v) >= 1
        /\ \A k \in 1..Len(TicketOf(i).citations.v) :
             IsWellFormedCitation(TicketOf(i).citations.v[k])
        /\ Targets(TicketOf(i).citations.v) =
             IF Len(SuppliedCitations(given[i])) = 0
             THEN << <<ctx.sourceDocIds[1], "inferred">> >>
             ELSE Targets(SuppliedCitations(given[i]))

C9_Witness ==
  /\ Returned /\ call.kind = "first" /\ ctx.hasDocuments /\ Len(ctx.sourceDocIds) > 1
  /\ \E i \in 1..Len(given) :
       /\ HasUsableTitle(given[i])
       /\ Get(given[i], "citations") = Undefined
       /\ Targets(TicketOf(i).citations.v) = << <<"doc_1", "inferred">> >>
  /\ \E i \in 1..Len(given) :
       /\ HasUsableTitle(given[i])
       /\ Len(SuppliedCitations(given[i])) = 1
       /\ Targets(TicketOf(i).citations.v) = << <<"doc_2", "c1">> >>

\* C10: every returned ticket has 0 <= confidence <= 1, for every raw confidence
\* (absent, non-numeric, negative, above 1) and every combination of promotion,
\* enum penalties, citation injection and is_derived.
C10_ConfidenceBounds ==
  Returned =>
    \A k \in 1..Len(tickets) :
      /\ tickets[k].v.confidence.t = "number"
      /\ tickets[k].v.confidence.v >= 0
      /\ tickets[k].v.confidence.v <= 1000

C10_Witness ==
  /\ Returned /\ call.kind = "first" /\ Len(given) = 1 /\ Len(tickets) = 1
  /\ Get(given[1], "confidence") = Num(1200)
  /\ Get(given[1], "is_derived") = Bool(TRUE)
  /\ tickets[1].v.type # Str("decision")
  /\ tickets[1].v.confidence.v < 750

(***************************************************************************)
(* C11 .. C20                                                              *)
(***************************************************************************)
\* An array whose elements are all strings.
IsStringArray(x) == x.t = "array" /\ \A k \in 1..Len(x.v) : x.v[k].t = "string"

\* The canonical fields whose type does not come from an enum lookup.
HasCanonicalShape(t) ==
  /\ t.title.t = "string" /\ t.title.v # ""
  /\ t.description.t = "string"
  /\ IsStringArray(t.acceptance_criteria) /\ Len(t.acceptance_criteria.v) >= 2
  /\ IsStringArray(t.known_edge_cases)
  /\ IsStringArray(t.open_questions)
  /\ t.setup_requirements.t = "array"
  /\ IsStringArray(t.dependencies)
  /\ IsStringArray(t.labels)
  /\ t.citations.t = "array"
  /\ IsStringArray(t.citation_keys)
  /\ t.suggested_assignee.t = "string" /\ t.suggested_assignee.v # ""

\* The enum fields are members of their enums.
HasCanonicalEnums(t) ==
  /\ t.type.t = "string" /\ t.type.v \in CanonicalTypes
  /\ t.priority.t = "string" /\ t.priority.v \in CanonicalPriorities
  /\ t.estimated_effort.t = "string" /\ t.estimated_effort.v \in CanonicalEfforts

\* C11: every returned ticket has every canonical field with its type: non-empty
\* title, string description, type/priority/estimated_effort in their enums, at
\* least 2 string acceptance criteria, the array fields arrays, and a non-empty
\* suggested_assignee.
C11_SchemaCompleteness ==
  Returned =>
    \A k \in 1..Len(tickets) :
      HasCanonicalShape(tickets[k].v) /\ HasCanonicalEnums(tickets[k].v)

\* C11 without the enum fields: the fields that the hard fill defaults itself
\* are always present with their type.
C11_ShapeOfFilledFields ==
  Returned => \A k \in 1..Len(tickets) : HasCanonicalShape(tickets[k].v)

\* C12: every element of every returned citations array is an object with a
\* string document_id and a string chunk_id; the ill-formed entries of the input
\* (bare strings, objects lacking either string field) are discarded, and the
\* well-formed ones are kept in their input order; without a well-formed entry
\* the array is empty or holds the one synthetic citation.
C12_CitationShape ==
  Returned =>
    \A i \in 1..Len(given) :
      HasUsableTitle(given[i]) =>
        /\ \A k \in 1..Len(TicketOf(i).citations.v) :
             IsWellFormedCitation(TicketOf(i).citations.v[k])
        /\ Len(SuppliedCitations(given[i])) > 0 =>
             Targets(TicketOf(i).citations.v) = Targets(SuppliedCitations(given[i]))
        /\ Len(SuppliedCitations(given[i])) = 0 =>
             /\ Len(TicketOf(i).citations.v) <= 1
             /\ \A k \in 1..Len(TicketOf(i).citations.v) :
                  TicketOf(i).citations.v[k].v.chunk_id = Str("inferred")

\* A batch whose candidate mixes a bare string, an object without chunk_id and
\* two well-formed citations: the two are returned, in order.
C12_Witness ==
  /\ Returned /\ call.kind = "first"
  /\ \E i \in 1..Len(given) :
       /\ HasUsableTitle(given[i])
       /\ Get(given[i], "citations") = mixedCitations
       /\ Targets(TicketOf(i).citations.v) = << <<"doc_1", "c7">>, <<"doc_2", "c1">> >>
       /\ DOMAIN TicketOf(i).citations.v[1].v = {"document_id", "chunk_id", "line_start"}

\* The events that validating the i-th candidate of the call logs.
EventsOf(i) == ticketEvents(pipeline(given[i], ctx))

\* The number of log.repaired++ that the i-th candidate of the call causes.
RepairEvents(i) ==
  Cardinality({k \in 1..Len(EventsOf(i)) : EventsOf(i)[k].counter = "repaired"})

\* C13: log.repaired counts the tickets that underwent at least one repair
\* event: it is at most total_output, and a ticket with several repair events
\* adds exactly 1.
C13_RepairedCountsTickets ==
  Returned =>
    /\ log.repaired <= log.total_output
    /\ log.repaired =
         Cardinality({i \in 1..Len(given) :
                        HasUsableTitle(given[i]) /\ RepairEvents(i) > 0})

\* What the code counts: log.repaired is the number of repair events of the call.
C13_RepairedCountsEvents ==
  Returned =>
    LET count[i \in 0..Len(given)] ==
          IF i = 0 THEN 0
          ELSE count[i - 1] + (IF HasUsableTitle(given[i]) THEN RepairEvents(i) ELSE 0)
    IN log.repaired = count[Len(given)]

\* The titles of the returned tickets.
ReturnedTitles == {tickets[k].v.title.v : k \in 1..Len(tickets)}

\* C14: log.reasons holds one reason per logged event, and each reason of a
\* repair, a promotion or a citation injection names the title of its ticket:
\* there are as many reasons as counter increments, and every reason other than
\* that of a drop contains the title of a returned ticket in quotes.
C14_ReasonsNameTitles ==
  Returned =>
    /\ Len(log.reasons) =
         log.repaired + log.promoted_to_decision + log.citations_injected + log.dropped
    /\ \A k \in 1..Len(log.reasons) :
         \/ log.reasons[k] = "dropped: missing title"
         \/ \E title \in ReturnedTitles : Includes(log.reasons[k], "\"" \o title \o "\"")

\* C14, the count alone: one reason per counter increment.
C14_OneReasonPerEvent ==
  Returned =>
    Len(log.reasons) =
      log.repaired + log.promoted_to_decision + log.citations_injected + log.dropped

\* C14, the titles alone: every reason other than that of a drop names a title.
C14_EveryReasonNamesATitle ==
  Returned =>
    \A k \in 1..Len(log.reasons) :
      \/ log.reasons[k] = "dropped: missing title"
      \/ \E title \in ReturnedTitles : Includes(log.reasons[k], "\"" \o title \o "\"")

\* The ticket that the i-th candidate of the call gets when it is validated
\* alone, as a batch of one with a fresh log.
TicketAlone(i) == validateAndRepairTickets(<<given[i]>>, ctx, 0).tickets

\* C15: the ticket of a candidate depends on that candidate's fields and the
\* context only: apart from a generated id it is the ticket that the candidate
\* gets when validated alone, whatever the other candidates of the batch, its
\* position in the batch and the log accumulated before it.
C15_CandidatesIndependent ==
  Returned =>
    \A i \in 1..Len(given) :
      HasUsableTitle(given[i]) =>
        SameApartFromIds(<<tickets[TicketIndex(i)]>>, TicketAlone(i))

\* C15 for arrays of records that are all different objects: there no candidate
\* sees what the validation of another one wrote.
C15_IndependentOfOtherRecords ==
  (Returned /\ call.kind # "shared") =>
    \A i \in 1..Len(given) :
      HasUsableTitle(given[i]) =>
        SameApartFromIds(<<tickets[TicketIndex(i)]>>, TicketAlone(i))

\* C16: every returned ticket has source_mode "grounded" if and only if
\* context.hasDocuments is true and "synthetic" otherwise, whether or not it has
\* a citation and whether or not sourceDocIds is empty.
C16_SourceMode ==
  Returned =>
    \A k \in 1..Len(tickets) :
      tickets[k].v.source_mode = Str(IF ctx.hasDocuments THEN "grounded" ELSE "synthetic")

\* A grounded ticket without any citation: the context has documents but no
\* source document ids, and the candidate cited nothing.
C16_Witness ==
  /\ Returned /\ call.kind = "first" /\ Len(tickets) >= 1
  /\ ctx.hasDocuments /\ Len(ctx.sourceDocIds) = 0
  /\ tickets[1].v.citations.v = <<>>
  /\ tickets[1].v.source_mode = Str("grounded")

\* The identifiers that the call generated.
GeneratedIds == {Str(randomUUID(n)) : n \in (prev.uuids + 1)..uuids}

\* C17 as stated: every returned ticket has id equal to objectID; the value is
\* the candidate's objectID when the candidate has one, else the candidate's id
\* when it has one, and a freshly generated identifier only when it has neither.
C17_IdentityAsStated ==
  Returned =>
    \A i \in 1..Len(given) :
      HasUsableTitle(given[i]) =>
        /\ TicketOf(i).id = TicketOf(i).objectID
        /\ TicketOf(i).id =
             IF Get(given[i], "objectID") # Undefined THEN Get(given[i], "objectID")
             ELSE IF Get(given[i], "id") # Undefined THEN Get(given[i], "id")
             ELSE TicketOf(i).id
        /\ (Get(given[i], "objectID") = Undefined /\ Get(given[i], "id") = Undefined)
             <=> TicketOf(i).id \in GeneratedIds

\* C17 amended: every returned ticket has id equal to objectID; the value is the
\* candidate's objectID when that is a string, else the candidate's id when that
\* is a string, and otherwise (neither is a string) an identifier generated in
\* this call, different for every ticket.
C17_Identity ==
  Returned =>
    /\ \A i \in 1..Len(given) :
         HasUsableTitle(given[i]) =>
           /\ TicketOf(i).id = TicketOf(i).objectID
           /\ TicketOf(i).id.t = "string"
           /\ Get(given[i], "objectID").t = "string" =>
                TicketOf(i).id = Get(given[i], "objectID")
           /\ (Get(given[i], "objectID").t # "string" /\ Get(given[i], "id").t = "string") =>
                TicketOf(i).id = Get(given[i], "id")
           /\ (Get(given[i], "objectID").t # "string" /\ Get(given[i], "id").t # "string") =>
                TicketOf(i).id \in GeneratedIds
    /\ \A i, j \in 1..Len(given) :
         (i < j /\ HasUsableTitle(given[i]) /\ HasUsableTitle(given[j])
            /\ TicketOf(i).id \in GeneratedIds /\ TicketOf(j).id \in GeneratedIds) =>
           TicketOf(i).id # TicketOf(j).id

\* A candidate with a string objectID and a different string id: the ticket
\* carries the objectID under both keys.
C17_Witness ==
  /\ Returned /\ call.kind = "first" /\ Len(given) = 1 /\ Len(tickets) = 1
  /\ Get(given[1], "objectID") = Str("obj-1")
  /\ Get(given[1], "id") = Str("t-9")
  /\ tickets[1].v.id = Str("obj-1")
  /\ tickets[1].v.objectID = Str("obj-1")

\* C18: citation_keys is derived from the final citations: for every returned
\* ticket it is as long as citations and its i-th entry is
\* "{document_id}:{chunk_id}" of the i-th citation, the injected one included.
C18_CitationKeys ==
  Returned =>
    \A k \in 1..Len(tickets) :
      /\ Len(tickets[k].v.citation_keys.v) = Len(tickets[k].v.citations.v)
      /\ \A j \in 1..Len(tickets[k].v.citations.v) :
           tickets[k].v.citation_keys.v[j] =
             Str(tickets[k].v.citations.v[j].v.document_id.v \o ":"
                   \o tickets[k].v.citations.v[j].v.chunk_id.v)

\* A ticket whose only citation is the injected synthetic one, with its key.
C18_Witness ==
  /\ Returned /\ call.kind = "first" /\ Len(tickets) = 1
  /\ Get(given[1], "citations") = Undefined
  /\ log.citations_injected = 1
  /\ tickets[1].v.citations.v = <<inferredCitation(ctx)>>
  /\ tickets[1].v.citation_keys.v = <<Str("doc_1:inferred")>>

\* c - p, never below 0.
Minus(c, p) == IF c - p < 0 THEN 0 ELSE c - p

\* c clamped into [0.4, 0.75].
ClampDecision(c) == IF c > 750 THEN 750 ELSE IF c < 400 THEN 400 ELSE c

\* The raw confidence if it is a number in [0,1], else 0.75.
StartConfidence(x) ==
  IF Get(x, "confidence").t = "number" /\ Get(x, "confidence").v >= 0
       /\ Get(x, "confidence").v <= 1000
  THEN Get(x, "confidence").v ELSE 750

\* The raw value is not already exactly a canonical value of its enum.
NotCanonical(v, canonical) == ~(v.t = "string" /\ v.v \in canonical)

\* The penalties of a candidate whose enum values are not already canonical.
StatedPenalty(x) ==
  (IF NotCanonical(Get(x, "type"), CanonicalTypes) THEN 50 ELSE 0)
  + (IF NotCanonical(Get(x, "priority"), CanonicalPriorities) THEN 30 ELSE 0)
  + (IF NotCanonical(Get(x, "estimated_effort"), CanonicalEfforts) THEN 100 ELSE 0)

\* The penalties as normalizeEnum's wasNormalized flags give them.
FlaggedPenalty(x) ==
  (IF normalizeEnum(Get(x, "type"), TYPE_ALIASES, "task").wasNormalized THEN 50 ELSE 0)
  + (IF normalizeEnum(Get(x, "priority"), PRIORITY_ALIASES, "medium").wasNormalized
     THEN 30 ELSE 0)
  + (IF ~Truthy(Get(x, "estimated_effort"))
          \/ normalizeEnum(Get(x, "estimated_effort"), EFFORT_ALIASES, "M").wasNormalized
     THEN 100 ELSE 0)

WasPromoted(x) == Len(SuppliedCriteria(x)) < 2

WasInjected(x) ==
  ctx.hasDocuments /\ Len(ctx.sourceDocIds) > 0 /\ Len(SuppliedCitations(x)) = 0

\* The confidence before the decision clamp: start, promotion cap, penalties.
PenalizedConfidence(x, penalty) ==
  Minus(IF WasPromoted(x) /\ StartConfidence(x) > 600 THEN 600 ELSE StartConfidence(x),
        penalty)

\* The adjustments in the order of the specification's steps: the decision
\* clamp and the derived penalty (step 4), then the injection penalty (step 5).
StepOrderConfidence(x, penalty, isDecision) ==
  LET clamped == IF isDecision THEN ClampDecision(PenalizedConfidence(x, penalty))
                 ELSE PenalizedConfidence(x, penalty)
      derived == IF Get(x, "is_derived") = Bool(TRUE) THEN Minus(clamped, 100) ELSE clamped
      grounded == IF WasInjected(x) THEN Minus(derived, 50) ELSE derived
  IN ((grounded + 5) \div 10) * 10

\* The adjustments in the order of the code: the injection penalty, then the
\* decision clamp, then the derived penalty.
CodeOrderConfidence(x, penalty, isDecision) ==
  LET grounded == IF WasInjected(x) THEN Minus(PenalizedConfidence(x, penalty), 50)
                  ELSE PenalizedConfidence(x, penalty)
      clamped == IF isDecision THEN ClampDecision(grounded) ELSE grounded
      derived == IF Get(x, "is_derived") = Bool(TRUE) THEN Minus(clamped, 100) ELSE clamped
  IN ((derived + 5) \div 10) * 10

\* C19: the confidence of a returned ticket is the value that the adjustments
\* give in the specification's step order: raw confidence or 0.75, cap 0.6 on
\* promotion, the penalties for a type, priority or effort that is not already
\* canonical, the decision clamp, the derived penalty, then the penalty of an
\* injected citation; never below 0, rounded to 2 decimals.
C19_StepOrderConfidence ==
  Returned =>
    \A i \in 1..Len(given) :
      HasUsableTitle(given[i]) =>
        TicketOf(i).confidence.v =
          StepOrderConfidence(given[i], StatedPenalty(given[i]),
                              TicketOf(i).type = Str("decision"))

\* C19 with the penalties that the code's flags give: the step order alone.
C19_StepOrderWithFlaggedPenalties ==
  Returned =>
    \A i \in 1..Len(given) :
      HasUsableTitle(given[i]) =>
        TicketOf(i).confidence.v =
          StepOrderConfidence(given[i], FlaggedPenalty(given[i]),
                              TicketOf(i).type = Str("decision"))

\* C19 in the order of the code, with the penalties that the specification
\* states: the penalties alone.
C19_CodeOrderWithStatedPenalties ==
  Returned =>
    \A i \in 1..Len(given) :
      HasUsableTitle(given[i]) =>
        TicketOf(i).confidence.v =
          CodeOrderConfidence(given[i], StatedPenalty(given[i]),
                              TicketOf(i).type = Str("decision"))

\* What the code computes: its own flags, the injection penalty before the
\* decision clamp.
C19_CodeOrderConfidence ==
  Returned =>
    \A i \in 1..Len(given) :
      HasUsableTitle(given[i]) =>
        TicketOf(i).confidence.v =
          CodeOrderConfidence(given[i], FlaggedPenalty(given[i]),
                              TicketOf(i).type = Str("decision"))

\* The canonical values and the alias table of the field normalized last.
CanonicalOf(field) ==
  CASE field = "type" -> CanonicalTypes
    [] field = "priority" -> CanonicalPriorities
    [] OTHER -> CanonicalEfforts

AliasesOf(field) ==
  CASE field = "type" -> TYPE_ALIASES
    [] field = "priority" -> PRIORITY_ALIASES
    [] OTHER -> EFFORT_ALIASES

\* C20: normalizeEnum reports wasNormalized = true exactly when the raw value
\* was not already exactly a canonical enum value: false for every canonical
\* value ("XS", "S", "M", "L", "XL" included), true for every alias that differs
\* from its canonical value, for case and whitespace variants, and for absent
\* and unrecognized values.
C20_WasNormalized ==
  normalized.field # "none" =>
    (normalized.result.wasNormalized
       <=> NotCanonical(normalized.raw, CanonicalOf(normalized.field)))

\* What the code reports: wasNormalized is false exactly for a raw string that
\* is written as a key of the alias table (lower case, no blanks around it), or
\* as a lower-case name that every object inherits.
C20_FlagTestsTheKey ==
  normalized.field # "none" =>
    (~normalized.result.wasNormalized
       <=> /\ normalized.raw.t = "string"
           /\ normalized.raw.v \in
                DOMAIN AliasesOf(normalized.field) \cup {"constructor", "__proto__"})

(***************************************************************************)
(* C21 .. C30                                                              *)
(***************************************************************************)
\* The value that the field normalized last falls back to.
FallbackOf(field) ==
  CASE field = "type" -> "task"
    [] field = "priority" -> "medium"
    [] OTHER -> "M"

\* The lower-cased, trimmed form of the raw value normalized last is a key of
\* the alias table of its field.
RawIsAKey ==
  /\ normalized.raw.t = "string"
  /\ Trim(ToLowerCase(normalized.raw.v)) \in DOMAIN AliasesOf(normalized.field)

\* C21: enum normalization is a case-insensitive, trimmed lookup in the alias
\* table: a raw string whose lower-cased trimmed form is a key resolves to that
\* key's canonical value, every other raw value (absent, non-string, unknown
\* string) resolves to the fallback of the field ("task", "medium", "M"), and so
\* the value is always a member of the field's enum.
C21_EnumLookup ==
  normalized.field # "none" =>
    /\ normalized.result.value =
         IF RawIsAKey
         THEN Str(AliasesOf(normalized.field)[Trim(ToLowerCase(normalized.raw.v))])
         ELSE Str(FallbackOf(normalized.field))
    /\ normalized.result.value.t = "string"
    /\ normalized.result.value.v \in CanonicalOf(normalized.field)

\* C21 for the raw values that name no property that the table inherits.
C21_LookupOfOwnKeys ==
  (normalized.field # "none"
     /\ ~(normalized.raw.t = "string"
            /\ Trim(ToLowerCase(normalized.raw.v)) \in {"constructor", "__proto__"})) =>
    /\ normalized.result.value =
         IF RawIsAKey
         THEN Str(AliasesOf(normalized.field)[Trim(ToLowerCase(normalized.raw.v))])
         ELSE Str(FallbackOf(normalized.field))
    /\ normalized.result.value.v \in CanonicalOf(normalized.field)

\* The non-empty edge cases that a candidate supplies, under known_edge_cases
\* or else under the legacy edge_cases.
SuppliedEdgeCases(x) ==
  NonEmptyStrings(Coalesce(Get(x, "known_edge_cases"), Get(x, "edge_cases")))

\* The entry is one of the placeholder phrases, in any case.
IsPlaceholderPhrase(e) == ToLowerCase(Trim(e.v)) \in placeholderEdgeCases

\* C22: for a returned ticket of type "decision", known_edge_cases is []
\* whenever the supplied entries are all placeholder phrases (one or several) or
\* there is none, and is the supplied array unchanged whenever it holds at
\* least one entry that is not a placeholder phrase.
C22_DecisionEdgeCases ==
  Returned =>
    \A i \in 1..Len(given) :
      (HasUsableTitle(given[i]) /\ TicketOf(i).type = Str("decision")) =>
        TicketOf(i).known_edge_cases =
          IF \A e \in Elements(SuppliedEdgeCases(given[i])) : IsPlaceholderPhrase(e)
          THEN Arr(<<>>)
          ELSE Arr(SuppliedEdgeCases(given[i]))

\* What the code does for a decision ticket: it clears a single entry that
\* contains a placeholder phrase, and keeps every other array as supplied.
C22_ClearsALoneEntryOnly ==
  Returned =>
    \A i \in 1..Len(given) :
      (HasUsableTitle(given[i]) /\ TicketOf(i).type = Str("decision")) =>
        TicketOf(i).known_edge_cases =
          IF /\ Len(SuppliedEdgeCases(given[i])) = 1
             /\ \E p \in placeholderEdgeCases :
                  Includes(ToLowerCase(SuppliedEdgeCases(given[i])[1].v), p)
          THEN Arr(<<>>)
          ELSE Arr(SuppliedEdgeCases(given[i]))

\* The non-empty edge cases that a candidate supplies under known_edge_cases
\* or, when there are none, those under the legacy edge_cases.
EdgeCasesUnderEitherName(x) ==
  IF Len(NonEmptyStrings(Get(x, "known_edge_cases"))) > 0
  THEN NonEmptyStrings(Get(x, "known_edge_cases"))
  ELSE NonEmptyStrings(Get(x, "edge_cases"))

\* C23 as stated: a returned ticket that is no decision has a non-empty
\* known_edge_cases: ["Handle basic success case"] when the candidate supplied
\* no non-empty edge case under known_edge_cases or edge_cases, and the
\* supplied entries otherwise.
C23_EdgeCasesUnderEitherName ==
  Returned =>
    \A i \in 1..Len(given) :
      (HasUsableTitle(given[i]) /\ TicketOf(i).type # Str("decision")) =>
        /\ Len(TicketOf(i).known_edge_cases.v) > 0
        /\ TicketOf(i).known_edge_cases =
             IF Len(EdgeCasesUnderEitherName(given[i])) = 0
             THEN Arr(<<Str("Handle basic success case")>>)
             ELSE Arr(EdgeCasesUnderEitherName(given[i]))

\* C23 amended: a returned ticket that is no decision has a non-empty
\* known_edge_cases: the non-empty strings of known_edge_cases when that key
\* is present (not null or undefined), else those of edge_cases, and
\* ["Handle basic success case"] when there is none of them.
C23_NonDecisionEdgeCases ==
  Returned =>
    \A i \in 1..Len(given) :
      (HasUsableTitle(given[i]) /\ TicketOf(i).type # Str("decision")) =>
        /\ Len(TicketOf(i).known_edge_cases.v) > 0
        /\ TicketOf(i).known_edge_cases =
             IF Len(SuppliedEdgeCases(given[i])) = 0
             THEN Arr(<<Str("Handle basic success case")>>)
             ELSE Arr(SuppliedEdgeCases(given[i]))

\* A task whose known_edge_cases is present and empty gets the default entry,
\* whatever its legacy edge_cases hold.
C23_Witness ==
  /\ Returned /\ call.kind = "first" /\ Len(given) = 1 /\ Len(tickets) = 1
  /\ Get(given[1], "known_edge_cases") = Arr(<<>>)
  /\ Get(given[1], "edge_cases") = Arr(<<Str("Legacy case")>>)
  /\ tickets[1].v.type = Str("task")
  /\ tickets[1].v.known_edge_cases = Arr(<<Str("Handle basic success case")>>)

\* The number of "filled-missing-fields" reasons in the log of the call.
FilledReasons ==
  Cardinality({k \in 1..Len(log.reasons) :
                 Includes(log.reasons[k], "filled-missing-fields: ")})

\* One of the fields that the hard fill defaults itself came out as its default
\* because the candidate gave nothing for it.
FilledByHardFill(i) ==
  \/ TicketOf(i).open_questions.v = <<>>
  \/ TicketOf(i).setup_requirements.v = <<>>
  \/ TicketOf(i).dependencies.v = <<>>
  \/ TicketOf(i).labels.v = <<>>
  \/ TicketOf(i).suggested_assignee = Str("Unassigned")

\* The description or the edge cases of a ticket that is no decision came out
\* as their default because the candidate gave nothing for them.
FilledElsewhere(i) ==
  \/ Get(given[i], "description").t # "string"
  \/ TicketOf(i).type # Str("decision") /\ Len(SuppliedEdgeCases(given[i])) = 0

\* C24: the log receives exactly one "filled-missing-fields" reason for every
\* returned ticket of which at least one of description, open_questions,
\* setup_requirements, dependencies, labels, suggested_assignee or
\* known_edge_cases had to be filled with its default, and none for a ticket
\* whose candidate supplied all of them.
C24_FilledMissingFields ==
  Returned =>
    FilledReasons =
      Cardinality({i \in 1..Len(given) :
                     HasUsableTitle(given[i])
                       /\ (FilledByHardFill(i) \/ FilledElsewhere(i))})

\* What the code logs: one reason for every returned ticket with an empty
\* open_questions, setup_requirements, dependencies or labels or without an
\* assignee; a defaulted description or known_edge_cases logs none.
C24_FilledReasonOfTheCode ==
  Returned =>
    FilledReasons =
      Cardinality({i \in 1..Len(given) : HasUsableTitle(given[i]) /\ FilledByHardFill(i)})

\* The open questions that the claim gives the ticket of a candidate: its own
\* non-empty ones and, on promotion, its criteria behind the prefix.
MergedQuestions(x) ==
  NonEmptyStrings(Get(x, "open_questions"))
    \o (IF WasPromoted(x)
        THEN [k \in 1..Len(SuppliedCriteria(x)) |->
                Str("[Needs clarification] " \o SuppliedCriteria(x)[k].v)]
        ELSE <<>>)

\* C25: on promotion the open questions are merged, not replaced: the ticket's
\* open_questions is the candidate's own non-empty open questions in their
\* order, followed by its acceptance criteria each behind
\* "[Needs clarification] "; without promotion it is exactly the candidate's
\* non-empty open questions.
C25_OpenQuestionsMerged ==
  Returned =>
    \A i \in 1..Len(given) :
      HasUsableTitle(given[i]) =>
        TicketOf(i).open_questions = Arr(MergedQuestions(given[i]))

\* C25 for arrays of records that are all different objects.
C25_MergedForOtherRecords ==
  (Returned /\ call.kind # "shared") =>
    \A i \in 1..Len(given) :
      HasUsableTitle(given[i]) =>
        TicketOf(i).open_questions = Arr(MergedQuestions(given[i]))

\* The first of the keys, in their order, that gives a non-empty string, and
\* "" when none does.
RECURSIVE FirstNonEmptyString(_, _)
FirstNonEmptyString(x, keys) ==
  IF keys = <<>> THEN ""
  ELSE IF Get(x, keys[1]).t = "string" /\ Get(x, keys[1]).v # ""
  THEN Get(x, keys[1]).v
  ELSE FirstNonEmptyString(x, Tail(keys))

\* The first of the keys, in their order, that gives a string, and "" when
\* none does.
RECURSIVE FirstString(_, _)
FirstString(x, keys) ==
  IF keys = <<>> THEN ""
  ELSE IF Get(x, keys[1]).t = "string" THEN Get(x, keys[1]).v
  ELSE FirstString(x, Tail(keys))

AssigneeKeys == <<"suggested_assignee", "assignee_role", "assignee">>

\* The dependencies and the edge cases of a ticket are read first-non-null
\* from the canonical and the legacy key.
LegacyArraysRead(i) ==
  /\ TicketOf(i).dependencies =
       Arr(NonEmptyStrings(Coalesce(Get(given[i], "dependencies"),
                                    Get(given[i], "depends_on"))))
  /\ (TicketOf(i).type # Str("decision") /\ SuppliedEdgeCases(given[i]) # <<>>)
       => TicketOf(i).known_edge_cases = Arr(SuppliedEdgeCases(given[i]))

\* C26: legacy names are accepted by a first-non-null read: dependencies from
\* dependencies, else depends_on; known_edge_cases from known_edge_cases, else
\* edge_cases; suggested_assignee from suggested_assignee, else assignee_role,
\* else assignee, and "Unassigned" when none of them gives a non-empty string.
C26_LegacyFields ==
  Returned =>
    \A i \in 1..Len(given) :
      HasUsableTitle(given[i]) =>
        /\ LegacyArraysRead(i)
        /\ TicketOf(i).suggested_assignee =
             Str(IF FirstNonEmptyString(given[i], AssigneeKeys) = ""
                 THEN "Unassigned"
                 ELSE FirstNonEmptyString(given[i], AssigneeKeys))

\* C26 as the code has it: the assignee is the first of the three keys that
\* holds a string, and "Unassigned" when that string is empty or none does.
C26_FirstStringOfTheCode ==
  Returned =>
    \A i \in 1..Len(given) :
      HasUsableTitle(given[i]) =>
        /\ LegacyArraysRead(i)
        /\ TicketOf(i).suggested_assignee =
             Str(IF FirstString(given[i], AssigneeKeys) = ""
                 THEN "Unassigned"
                 ELSE FirstString(given[i], AssigneeKeys))

\* A setup requirement of the canonical shape.
IsSetupRequirement(e) ==
  /\ e.t = "object"
  /\ DOMAIN e.v = {"description", "type", "resolved"}
  /\ e.v.description.t = "string"
  /\ e.v.type.t = "string" /\ e.v.type.v \in SetupRequirementTypes
  /\ e.v.resolved.t = "boolean"

\* An input entry that is a bare string, no object, or an object whose type is
\* not one of the five.
IsMalformedRequirement(e) ==
  \/ e.t # "object"
  \/ Get(e, "type").t # "string"
  \/ Get(e, "type").v \notin SetupRequirementTypes

\* The setup requirements a candidate supplies: the entries of its array.
SuppliedRequirements(x) ==
  IF IsArray(Get(x, "setup_requirements")) THEN Get(x, "setup_requirements").v ELSE <<>>

\* C27: every entry of a ticket's setup_requirements has a string description,
\* one of the five types and a boolean resolved; a malformed input entry (a
\* bare string, a non-object, an object with an unknown type) becomes an entry
\* of type "other" with resolved false; and no input entry is dropped.
C27_SetupRequirements ==
  Returned =>
    \A i \in 1..Len(given) :
      HasUsableTitle(given[i]) =>
        LET out == TicketOf(i).setup_requirements.v
            inp == SuppliedRequirements(given[i])
        IN /\ \A k \in 1..Len(out) : IsSetupRequirement(out[k])
           /\ Len(out) = Len(inp)
           /\ \A k \in 1..Len(inp) :
                IsMalformedRequirement(inp[k]) =>
                  /\ out[k].v.type = Str("other")
                  /\ out[k].v.resolved = Bool(FALSE)

\* C27 as the code has it: a malformed entry gets type "other"; its resolved
\* is false unless the entry is an object that carries a boolean resolved,
\* which is kept.
C27_ResolvedOfTheCode ==
  Returned =>
    \A i \in 1..Len(given) :
      HasUsableTitle(given[i]) =>
        LET out == TicketOf(i).setup_requirements.v
            inp == SuppliedRequirements(given[i])
        IN /\ \A k \in 1..Len(out) : IsSetupRequirement(out[k])
           /\ Len(out) = Len(inp)
           /\ \A k \in 1..Len(inp) :
                IsMalformedRequirement(inp[k]) =>
                  /\ out[k].v.type = Str("other")
                  /\ out[k].v.resolved =
                       (IF Get(inp[k], "resolved").t = "boolean"
                        THEN Get(inp[k], "resolved") ELSE Bool(FALSE))

\* The positions of the candidates that were returned as tickets.
ReturnedPositions == {i \in 1..Len(given) : HasUsableTitle(given[i])}

\* C28: after a call, log.promoted_to_decision is the number of returned
\* tickets that were promoted (fewer than 2 acceptance criteria) and
\* log.citations_injected is the number of returned tickets whose citation was
\* injected; a dropped candidate increments neither.
C28_PromotionAndInjectionCounters ==
  Returned =>
    /\ log.promoted_to_decision =
         Cardinality({i \in ReturnedPositions : WasPromoted(given[i])})
    /\ log.citations_injected =
         Cardinality({i \in ReturnedPositions : WasInjected(given[i])})

\* A batch of a dropped candidate, which has neither criteria nor citations,
\* and a returned one that was promoted and got the injected citation.
C28_Witness ==
  /\ Returned /\ Len(given) = 2 /\ Len(tickets) = 1
  /\ \E i \in 1..2 :
       /\ ~HasUsableTitle(given[i])
       /\ WasPromoted(given[i]) /\ WasInjected(given[i])
  /\ \E i \in ReturnedPositions : WasPromoted(given[i]) /\ WasInjected(given[i])
  /\ log.promoted_to_decision = 1 /\ log.citations_injected = 1
  /\ log.dropped = 1

\* C29: after a call that returns, log.total_input is the length of the raw
\* array, log.total_output is the number of tickets, total_input is
\* total_output plus dropped, and the tickets stand in the order of their
\* candidates: the k-th ticket is the ticket of the k-th candidate with a
\* usable title.
C29_BatchAccounting ==
  Returned =>
    /\ log.total_input = Len(given)
    /\ log.total_output = Len(tickets)
    /\ log.total_input = log.total_output + log.dropped
    /\ Len(tickets) = Cardinality(ReturnedPositions)
    /\ \A i \in ReturnedPositions :
         tickets[TicketIndex(i)].v.title = Str(titleOf(given[i]))

\* A batch of three with a dropped candidate between two returned ones of
\* different titles.
C29_Witness ==
  /\ Returned /\ Len(given) = 3 /\ Len(tickets) = 2
  /\ ReturnedPositions = {1, 3}
  /\ titleOf(given[1]) # titleOf(given[3])
  /\ tickets[1].v.title = Str(titleOf(given[1]))
  /\ tickets[2].v.title = Str(titleOf(given[3]))
  /\ log.total_input = 3 /\ log.total_output = 2 /\ log.dropped = 1

\* C30: the two injection points never both act and the second never acts
\* alone: after step 5 the backstop condition of step 7 (no citation, a
\* document-backed run, a source document id) holds for no candidate; a ticket
\* whose citation was injected carries the synthetic citation once, with its
\* citation_keys entry, and has the 0.05 penalty applied once; every other
\* ticket carries the citations it supplied and no penalty; and
\* citations_injected counts the tickets with an injected citation.
C30_SingleInjection ==
  Returned =>
    /\ \A i \in ReturnedPositions :
         /\ ~backstopApplies(pipeline(given[i], ctx).citations, ctx)
         /\ TicketOf(i).citations =
              Arr(IF WasInjected(given[i]) THEN <<inferredCitation(ctx)>>
                  ELSE pipeline(given[i], ctx).citations)
         /\ TicketOf(i).citation_keys =
              Arr([k \in 1..Len(TicketOf(i).citations.v) |->
                     citationKey(TicketOf(i).citations.v[k])])
         /\ TicketOf(i).confidence.v =
              CodeOrderConfidence(given[i], FlaggedPenalty(given[i]),
                                  TicketOf(i).type = Str("decision"))
    /\ log.citations_injected =
         Cardinality({i \in ReturnedPositions : WasInjected(given[i])})

\* A document-backed call with source ids whose candidate supplies no
\* citation: step 5 injects, the ticket carries the one synthetic citation
\* with its key, is counted once, and its confidence shows one penalty.
C30_Witness ==
  /\ Returned /\ call.kind = "first" /\ Len(given) = 1 /\ Len(tickets) = 1
  /\ WasInjected(given[1])
  /\ pipeline(given[1], ctx).injected
  /\ TicketOf(1).citations = Arr(<<inferredCitation(ctx)>>)
  /\ TicketOf(1).citation_keys = Arr(<<Str("doc_1:inferred")>>)
  /\ log.citations_injected = 1
  /\ Get(given[1], "confidence") = Num(900)
  /\ TicketOf(1).type = Str("task")
  /\ TicketOf(1).confidence = Num(900 - 50 - FlaggedPenalty(given[1]))

====
